---- MODULE Spec2Model ----
(***************************************************************************)
(* State-machine model of the switch2idea extension: the configuration     *)
(* store and its reader (ConfigManager.getEditors), the sidebar tree view  *)
(* and its add/edit/delete flows (EditorConfigCommands), the editor        *)
(* selector, the handler registry and the JetBrains launch handler, and    *)
(* the jump flows of the entry point.                                      *)
(*                                                                         *)
(* Conventions.  JavaScript `undefined` is the string Undefined where a    *)
(* string is expected and NoNumber where a number is expected; a `null`    *)
(* array element (what a hole left by `editors[index] = ...` becomes once  *)
(* the list is serialised) is the record Hole.  Indices are 0-based as in  *)
(* the code; TLA+ sequences are 1-based, so position i of the code is      *)
(* element i + 1 of the sequence.  Every `await` on a prompt, on the       *)
(* settings write or on the child process is a suspension point and ends   *)
(* an action; the code between two suspension points is one action.        *)
(***************************************************************************)
EXTENDS Integers, Sequences, FiniteSets, TLC

VARIABLES
    editors,         \* switch2idea.editors: [present, list]
    ideaPath,        \* switch2idea.ideaPath: a string or Undefined
    rows,            \* the EditorTreeItems last returned by getChildren
    refreshPending,  \* onDidChangeTreeData fired, getChildren not yet called again
    flow,            \* per sidebar invocation: position in add/edit/delete and its locals
    jump,            \* the jump command invocation in progress or last finished
    handlers,        \* JumpHandlerFactory.handlers: editor type -> handler
    registered,      \* history: the registerHandler calls so far, oldest first
    used,            \* commands invoked and outside changes so far (bounds the run)
    rendered         \* history: the store values the last getChildren read

vars == <<editors, ideaPath, rows, refreshPending, flow, jump, handlers, registered, used,
          rendered>>

-----------------------------------------------------------------------------
(* Bounds of the model *)

\* longest stored list a sidebar flow or an external change produces
MaxEditors == 3
\* how many events (commands invoked, settings changed from outside) one run has
MaxEvents == 2
\* how many entries of JETBRAINS_PRESETS, from the top, the user picks among
PickablePresets == 2
\* largest 0-based cursor line and character of the active document
MaxCursor == 1
\* how many registerHandler calls one run has
MaxRegistrations == 2

-----------------------------------------------------------------------------
(* Values *)

Undefined == "<undefined>"
NoNumber == 0 - 1

EditorConfig(name, type, path, urlScheme) ==
    [name |-> name, type |-> type, path |-> path, urlScheme |-> urlScheme]

Hole == EditorConfig("<null>", "<null>", "<null>", "<null>")

\* JavaScript truthiness of an optional string
Truthy(s) == s # Undefined /\ s # ""

\* a || b on optional strings
OrElse(a, b) == IF Truthy(a) THEN a ELSE b

JETBRAINS_PRESETS ==
    << [name |-> "IntelliJ IDEA",  type |-> "jetbrains", urlScheme |-> "idea"],
       [name |-> "WebStorm",       type |-> "jetbrains", urlScheme |-> "webstorm"],
       [name |-> "PyCharm",        type |-> "jetbrains", urlScheme |-> "pycharm"],
       [name |-> "RustRover",      type |-> "jetbrains", urlScheme |-> "rustrover"],
       [name |-> "GoLand",         type |-> "jetbrains", urlScheme |-> "goland"],
       [name |-> "CLion",          type |-> "jetbrains", urlScheme |-> "clion"],
       [name |-> "PhpStorm",       type |-> "jetbrains", urlScheme |-> "phpstorm"],
       [name |-> "Rider",          type |-> "jetbrains", urlScheme |-> "rider"],
       [name |-> "DataGrip",       type |-> "jetbrains", urlScheme |-> "datagrip"],
       [name |-> "Android Studio", type |-> "jetbrains", urlScheme |-> "studio"] >>

-----------------------------------------------------------------------------
(* What the user and the environment supply *)

\* answers to an input box: dismissed, submitted empty, or a text
NameInputs == {Undefined, "", "Sublime"}
PathInputs == {Undefined, "", "/opt/ide"}
SchemeInputs == {Undefined, "", "subl"}
\* answer to the file dialog: cancelled (no uris) or one path
BrowseResults == {Undefined, "/opt/ide"}

LegacyValues == {Undefined, "", "/opt/idea"}

WebStormA == EditorConfig("WebStorm", "jetbrains", "", "webstorm")
WebStormB == EditorConfig("WebStorm", "jetbrains", "/opt/ws2", "webstorm")
SublimeC == EditorConfig("Sublime", "custom", "/opt/subl", Undefined)

Absent == [present |-> FALSE, list |-> << >>]
Stored(l) == [present |-> TRUE, list |-> l]

\* values of switch2idea.editors written from outside the extension
\* (settings.json edited by hand or through the settings UI)
ExternalLists ==
    { Absent, Stored(<< >>), Stored(<<WebStormA>>), Stored(<<SublimeC, WebStormA>>),
      Stored(<<WebStormA, WebStormB>>), Stored(<<SublimeC, Hole>>) }

-----------------------------------------------------------------------------
(* Configuration Store Reader *)

getDefaultEditors == << EditorConfig("IntelliJ IDEA", "jetbrains", "", "idea") >>

\* a mutant of getEditors: the legacy key is consulted before the primary list
getEditorsLegacyFirst(ed, legacy) ==
    IF Truthy(legacy)
    THEN << EditorConfig("IntelliJ IDEA", "jetbrains", legacy, "idea") >>
    ELSE IF ed.present /\ Len(ed.list) > 0 THEN ed.list ELSE getDefaultEditors

\* a mutant of getEditors: no built-in default when nothing is configured
getEditorsNoDefault(ed, legacy) ==
    IF ed.present /\ Len(ed.list) > 0
    THEN ed.list
    ELSE IF Truthy(legacy)
         THEN << EditorConfig("IntelliJ IDEA", "jetbrains", legacy, "idea") >>
         ELSE << >>

getEditors(ed, legacy) ==
    IF ed.present /\ Len(ed.list) > 0
    THEN ed.list
    ELSE IF Truthy(legacy)
         THEN << EditorConfig("IntelliJ IDEA", "jetbrains", legacy, "idea") >>
         ELSE getDefaultEditors

\* config.get<EditorConfig[]>('editors') || []
getOrEmpty(ed) == IF ed.present THEN ed.list ELSE << >>

-----------------------------------------------------------------------------
(* Text.  A string the code only passes around is one TLA+ string.  A string the   *)
(* code builds by concatenation is the sequence of its parts, and a name it         *)
(* searches in is spelled out character by character.                               *)

\* the characters of the names that occur in the model
NameChars(name) ==
    CASE name = "IntelliJ IDEA" -> <<"I", "n", "t", "e", "l", "l", "i", "J", " ", "I", "D", "E", "A">>
      [] name = "WebStorm" -> <<"W", "e", "b", "S", "t", "o", "r", "m">>
      [] name = "PyCharm" -> <<"P", "y", "C", "h", "a", "r", "m">>
      [] name = "RustRover" -> <<"R", "u", "s", "t", "R", "o", "v", "e", "r">>
      [] name = "GoLand" -> <<"G", "o", "L", "a", "n", "d">>
      [] name = "CLion" -> <<"C", "L", "i", "o", "n">>
      [] name = "PhpStorm" -> <<"P", "h", "p", "S", "t", "o", "r", "m">>
      [] name = "Rider" -> <<"R", "i", "d", "e", "r">>
      [] name = "DataGrip" -> <<"D", "a", "t", "a", "G", "r", "i", "p">>
      [] name = "Android Studio" -> <<"A", "n", "d", "r", "o", "i", "d", " ", "S", "t", "u", "d", "i", "o">>
      [] name = "Sublime" -> <<"S", "u", "b", "l", "i", "m", "e">>
      [] name = "Renamed" -> <<"R", "e", "n", "a", "m", "e", "d">>
      [] name = "<null>" -> <<"<", "n", "u", "l", "l", ">">>
      [] name = "" -> << >>
      [] name = "MY WEBSTORM" -> <<"M", "Y", " ", "W", "E", "B", "S", "T", "O", "R", "M">>
      [] name = "PyCharm WebStorm" ->
           <<"P", "y", "C", "h", "a", "r", "m", " ", "W", "e", "b", "S", "t", "o", "r", "m">>
      [] name = "intellij idea" -> <<"i", "n", "t", "e", "l", "l", "i", "j", " ", "i", "d", "e", "a">>
      [] name = "webstorm" -> <<"w", "e", "b", "s", "t", "o", "r", "m">>
      [] name = "pycharm" -> <<"p", "y", "c", "h", "a", "r", "m">>
      [] name = "goland" -> <<"g", "o", "l", "a", "n", "d">>
      [] name = "phpstorm" -> <<"p", "h", "p", "s", "t", "o", "r", "m">>
      [] name = "rider" -> <<"r", "i", "d", "e", "r">>
      [] name = "clion" -> <<"c", "l", "i", "o", "n">>
      [] name = "rubymine" -> <<"r", "u", "b", "y", "m", "i", "n", "e">>
      [] name = "datagrip" -> <<"d", "a", "t", "a", "g", "r", "i", "p">>
      [] name = "android studio" -> <<"a", "n", "d", "r", "o", "i", "d", " ", "s", "t", "u", "d", "i", "o">>

\* String.prototype.toLowerCase, on one character
LowerChar(c) ==
    CASE c = "A" -> "a"
      [] c = "B" -> "b"
      [] c = "C" -> "c"
      [] c = "D" -> "d"
      [] c = "E" -> "e"
      [] c = "F" -> "f"
      [] c = "G" -> "g"
      [] c = "H" -> "h"
      [] c = "I" -> "i"
      [] c = "J" -> "j"
      [] c = "K" -> "k"
      [] c = "L" -> "l"
      [] c = "M" -> "m"
      [] c = "N" -> "n"
      [] c = "O" -> "o"
      [] c = "P" -> "p"
      [] c = "Q" -> "q"
      [] c = "R" -> "r"
      [] c = "S" -> "s"
      [] c = "T" -> "t"
      [] c = "U" -> "u"
      [] c = "V" -> "v"
      [] c = "W" -> "w"
      [] c = "X" -> "x"
      [] c = "Y" -> "y"
      [] c = "Z" -> "z"
      [] OTHER -> c

toLowerCase(cs) == [k \in 1..Len(cs) |-> LowerChar(cs[k])]

\* String.prototype.includes
includes(cs, key) ==
    \E start \in 0..(Len(cs) - Len(key)) :
       \A k \in 1..Len(key) : cs[start + k] = key[k]

\* String.prototype.replace(part, ''), on a string given by its parts
replaceFirst(parts, part) ==
    IF \E k \in 1..Len(parts) : parts[k] = part
    THEN LET at == CHOOSE k \in 1..Len(parts) :
                      parts[k] = part /\ \A j \in 1..(k - 1) : parts[j] # part
         IN  [k \in 1..(Len(parts) - 1) |-> IF k < at THEN parts[k] ELSE parts[k + 1]]
    ELSE parts

\* encodeURIComponent on the paths of the model: '/' becomes %2F
encodeURIComponent(path) ==
    CASE path = "/w/a.ts" -> "%2Fw%2Fa.ts"
      [] path = "/w/b.ts" -> "%2Fw%2Fb.ts"
      [] path = "/w" -> "%2Fw"
      [] path = "/v" -> "%2Fv"

-----------------------------------------------------------------------------
(* JetBrains launch handler *)

Platforms == {"darwin", "win32", "linux", "freebsd"}

Message(id, args) == [id |-> id, args |-> args]

noFileOrProject == Message("No file or project path provided!", << >>)

editorNotFound(name, path) ==
    Message("Cannot launch {0}: \"{1}\" not found. Please check the editor path config.",
            <<name>> \o path)

executionFailed(name, error) == Message("Failed to launch {0}: {1}", <<name, error>>)

appNameMap ==
    <<
       [key |-> "intellij idea", mac |-> "IntelliJ IDEA", win |-> <<"idea", "64.exe">>, linux |-> <<"idea", ".sh">>],
       [key |-> "webstorm", mac |-> "WebStorm", win |-> <<"webstorm", "64.exe">>, linux |-> <<"webstorm", ".sh">>],
       [key |-> "pycharm", mac |-> "PyCharm", win |-> <<"pycharm", "64.exe">>, linux |-> <<"pycharm", ".sh">>],
       [key |-> "goland", mac |-> "GoLand", win |-> <<"goland", "64.exe">>, linux |-> <<"goland", ".sh">>],
       [key |-> "phpstorm", mac |-> "PhpStorm", win |-> <<"phpstorm", "64.exe">>, linux |-> <<"phpstorm", ".sh">>],
       [key |-> "rider", mac |-> "Rider", win |-> <<"rider", "64.exe">>, linux |-> <<"rider", ".sh">>],
       [key |-> "clion", mac |-> "CLion", win |-> <<"clion", "64.exe">>, linux |-> <<"clion", ".sh">>],
       [key |-> "rubymine", mac |-> "RubyMine", win |-> <<"rubymine", "64.exe">>, linux |-> <<"rubymine", ".sh">>],
       [key |-> "datagrip", mac |-> "DataGrip", win |-> <<"datagrip", "64.exe">>, linux |-> <<"datagrip", ".sh">>],
       [key |-> "android studio", mac |-> "Android Studio", win |-> <<"studio", "64.exe">>, linux |-> <<"studio", ".sh">>] >>

\* a mutant of getDefaultPath: the name is matched as written, not lowercased
getDefaultPathCaseSensitive(platform, editorName) ==
    LET name == IF Truthy(editorName) /\ NameChars(editorName) # << >>
                THEN NameChars(editorName)
                ELSE NameChars("intellij idea")
        hits == {k \in 1..Len(appNameMap) : includes(name, NameChars(appNameMap[k].key))}
        appInfo == IF hits = {}
                   THEN appNameMap[1]
                   ELSE appNameMap[CHOOSE k \in hits : \A j \in hits : k <= j]
    IN  CASE platform = "darwin" -> <<appInfo.mac>>
          [] platform = "win32" ->
               <<"%LOCALAPPDATA%", "\\JetBrains\\Toolbox\\scripts\\">>
                  \o replaceFirst(appInfo.win, "64.exe")
          [] platform = "linux" ->
               <<"~", "/.local/share/JetBrains/Toolbox/scripts/">>
                  \o replaceFirst(appInfo.linux, ".sh")
          [] OTHER -> <<appInfo.mac>>

getDefaultPath(platform, editorName) ==
    LET name == IF Truthy(editorName) /\ toLowerCase(NameChars(editorName)) # << >>
                THEN toLowerCase(NameChars(editorName))
                ELSE NameChars("intellij idea")
        hits == {k \in 1..Len(appNameMap) : includes(name, NameChars(appNameMap[k].key))}
        appInfo == IF hits = {}
                   THEN appNameMap[1]
                   ELSE appNameMap[CHOOSE k \in hits : \A j \in hits : k <= j]
    IN  CASE platform = "darwin" -> <<appInfo.mac>>
          [] platform = "win32" ->
               <<"%LOCALAPPDATA%", "\\JetBrains\\Toolbox\\scripts\\">>
                  \o replaceFirst(appInfo.win, "64.exe")
          [] platform = "linux" ->
               <<"~", "/.local/share/JetBrains/Toolbox/scripts/">>
                  \o replaceFirst(appInfo.linux, ".sh")
          [] OTHER -> <<appInfo.mac>>

\* config.path || this.getDefaultPath(platform, config.name)
resolvePath(platform, config) ==
    IF Truthy(config.path) THEN <<config.path>> ELSE getDefaultPath(platform, config.name)

JumpContext(filePath, projectPath, line, column) ==
    [filePath |-> filePath, projectPath |-> projectPath, line |-> line, column |-> column]

\* if (context.line): a number that is neither undefined nor 0
LinePresent(context) == context.line # NoNumber /\ context.line # 0

\* a mutant of ColumnPresent: the column is tested like the line, by truthiness
ColumnPresentTruthy(context) == context.column # NoNumber /\ context.column # 0

\* if (context.column !== undefined)
ColumnPresent(context) == context.column # NoNumber

Built(command) == [ok |-> TRUE, command |-> command, error |-> noFileOrProject]

Thrown(error) == [ok |-> FALSE, command |-> << >>, error |-> error]

buildMacCommand(config, context, appPath) ==
    LET scheme == OrElse(config.urlScheme, "idea")
        open(url) == Built(<<"open -a \"">> \o appPath \o <<"\" \"">> \o url \o <<"\"">>)
    IN  IF Truthy(context.filePath)
        THEN open(<<scheme, "://open?file=", encodeURIComponent(context.filePath)>>
                  \o (IF LinePresent(context)
                      THEN <<"&line=", ToString(context.line)>> ELSE << >>)
                  \o (IF ColumnPresent(context)
                      THEN <<"&column=", ToString(context.column)>> ELSE << >>))
        ELSE IF Truthy(context.projectPath)
             THEN open(<<scheme, "://open?file=", encodeURIComponent(context.projectPath)>>)
             ELSE Thrown(noFileOrProject)

\* a mutant of buildCliCommand: with no target the bare executable is launched
buildCliCommandNoThrow(context, execPath) ==
    IF Truthy(context.filePath)
    THEN Built(<<"\"">> \o execPath \o <<"\"">>
               \o (IF LinePresent(context)
                   THEN <<" --line ", ToString(context.line)>> ELSE << >>)
               \o (IF ColumnPresent(context)
                   THEN <<" --column ", ToString(context.column)>> ELSE << >>)
               \o <<" \"", context.filePath, "\"">>)
    ELSE IF Truthy(context.projectPath)
         THEN Built(<<"\"">> \o execPath \o <<"\" \"", context.projectPath, "\"">>)
         ELSE Built(<<"\"">> \o execPath \o <<"\"">>)

buildCliCommand(context, execPath) ==
    IF Truthy(context.filePath)
    THEN Built(<<"\"">> \o execPath \o <<"\"">>
               \o (IF LinePresent(context)
                   THEN <<" --line ", ToString(context.line)>> ELSE << >>)
               \o (IF ColumnPresent(context)
                   THEN <<" --column ", ToString(context.column)>> ELSE << >>)
               \o <<" \"", context.filePath, "\"">>)
    ELSE IF Truthy(context.projectPath)
         THEN Built(<<"\"">> \o execPath \o <<"\" \"", context.projectPath, "\"">>)
         ELSE Thrown(noFileOrProject)

buildCommand(platform, config, context) ==
    IF platform = "darwin"
    THEN buildMacCommand(config, context, resolvePath(platform, config))
    ELSE buildCliCommand(context, resolvePath(platform, config))

\* what exec hands its callback: no error, or an error with a message and a code;
\* `has` lists which of the texts executeCommand looks for the message contains
NoError == [failed |-> FALSE, message |-> "", has |-> {}, code |-> 0]

ExecError(message, has, code) ==
    [failed |-> TRUE, message |-> message, has |-> has, code |-> code]

ExecResults ==
    { NoError,
      ExecError("spawn idea ENOENT", {"ENOENT"}, 1),
      ExecError("/bin/sh: 1: idea: not found", {"not found"}, 1),
      ExecError("Command failed: idea", {}, 127),
      ExecError("Command failed: idea", {}, 1) }

\* a mutant of executeCommandError: exit code 127 is not taken as 'not found'
executeCommandErrorNo127(platform, config, error) ==
    IF \/ "ENOENT" \in error.has
       \/ "not found" \in error.has
       \/ "zh:not found" \in error.has
    THEN editorNotFound(config.name, resolvePath(platform, config))
    ELSE executionFailed(config.name, error.message)

\* the message executeCommand shows and rejects with
executeCommandError(platform, config, error) ==
    IF \/ "ENOENT" \in error.has
       \/ "not found" \in error.has
       \/ "zh:not found" \in error.has   \* the localized (Chinese) 'not found' text
       \/ error.code = 127
    THEN editorNotFound(config.name, resolvePath(platform, config))
    ELSE executionFailed(config.name, error.message)

-----------------------------------------------------------------------------
(* Jump handler registry *)

SeededHandlers == [type \in {"jetbrains"} |-> "JetBrainsHandler"]

unsupportedType(type) ==
    Message("Unsupported editor type: {0}. Currently supported types: jetbrains", <<type>>)

\* a mutant of getHandler: an unregistered type falls back to the JetBrains handler
getHandlerFallback(registry, type) ==
    IF type \in DOMAIN registry
    THEN [ok |-> TRUE, handler |-> registry[type], error |-> unsupportedType(type)]
    ELSE [ok |-> TRUE, handler |-> registry["jetbrains"], error |-> unsupportedType(type)]

\* getHandler: the registered handler, or the error thrown
getHandler(registry, type) ==
    IF type \in DOMAIN registry
    THEN [ok |-> TRUE, handler |-> registry[type], error |-> unsupportedType(type)]
    ELSE [ok |-> FALSE, handler |-> "none", error |-> unsupportedType(type)]

\* the values of EditorType
EditorTypes == {"jetbrains", "custom"}

\* the JumpHandler instances handed to registerHandler; JetBrainsHandler is the only
\* implementation, so each is an instance of it ("JetBrainsHandler" is the seeded one)
HandlerInstances == {"JetBrainsHandler", "JetBrainsHandlerB"}

\* a mutant of registerHandler: a type that has a handler keeps it
registerHandlerKeepsFirst(registry, type, handler) ==
    [t \in DOMAIN registry \cup {type} |->
        IF t \in DOMAIN registry THEN registry[t] ELSE handler]

\* this.handlers.set(type, handler)
registerHandler(registry, type, handler) ==
    [t \in DOMAIN registry \cup {type} |-> IF t = type THEN handler ELSE registry[t]]

\* JumpHandlerFactory.registerHandler is called
RegisterHandler ==
    /\ Len(registered) < MaxRegistrations
    /\ \E type \in EditorTypes, handler \in HandlerInstances :
          /\ handlers' = registerHandler(handlers, type, handler)
          /\ registered' = Append(registered, [type |-> type, handler |-> handler])
    /\ UNCHANGED <<editors, ideaPath, rows, refreshPending, flow, jump, used, rendered>>

-----------------------------------------------------------------------------
(* Sidebar tree view *)

EditorTreeItem(editor, index) == [editor |-> editor, index |-> index]

\* the trailing 'Add editor...' row: it carries no editor and no index
AddEditorTreeItem == [editor |-> Hole, index |-> NoNumber]

\* contextValue 'editorItem': the rows the edit, delete and jump menus are offered on
IsEditorItem(item) == item # AddEditorTreeItem

\* editors.map((editor, index) => new EditorTreeItem(editor, index)), then the add
\* item is pushed; the constructor reads editor.name, so a null entry makes
\* getChildren throw and no row is shown
getChildren(ed, legacy) ==
    LET es == getEditors(ed, legacy)
    IN  IF \E i \in 1..Len(es) : es[i] = Hole
        THEN << >>
        ELSE [i \in 1..Len(es) |-> EditorTreeItem(es[i], i - 1)] \o <<AddEditorTreeItem>>

-----------------------------------------------------------------------------
(* Sidebar commands: locals of one invocation *)

Flows == {"f1", "f2"}

IdleFlow ==
    [ pc        |-> "idle",      \* the prompt awaited, "writing" (config.update pending), "done"
      kind      |-> "none",      \* add | edit | delete
      cfg       |-> Hole,        \* add: name/type/urlScheme chosen so far, then editorConfig
      item      |-> EditorTreeItem(Hole, 0),   \* edit, delete: the row the command was given
      live      |-> FALSE,       \* item is still one of the objects in rows
      field     |-> "none",      \* edit: fieldChoice
      answer    |-> Undefined,   \* what the last prompt returned (edit: newValue)
      abandoned |-> FALSE,       \* some prompt of this invocation was dismissed
      read      |-> << >>,       \* the list save/update/remove read from the store
      toWrite   |-> << >>,       \* the list handed to config.update
      confirmed |-> FALSE ]      \* showInformationMessage was called

\* the command's promise settles: its locals are gone, what it showed is kept
Ended(fl) ==
    [IdleFlow EXCEPT !.pc = "done", !.kind = fl.kind, !.answer = fl.answer,
                     !.abandoned = fl.abandoned, !.confirmed = fl.confirmed]

Returned(fl) == Ended(fl)

Dismissed(fl) == Ended([fl EXCEPT !.answer = Undefined, !.abandoned = TRUE])

CanStart(f) == flow[f].pc \in {"idle", "done"} /\ used < MaxEvents

\* editors.push(editor)
push(list, editor) == Append(list, editor)

\* a mutant of saveEditor: the new entry is put in front
saveEditorUnshift(fl, ed, editor) ==
    [fl EXCEPT !.pc = "writing", !.cfg = editor,
               !.read = getOrEmpty(ed), !.toWrite = <<editor>> \o getOrEmpty(ed)]

\* saveEditor up to its await: read the list, push, call config.update
saveEditor(fl, ed, editor) ==
    [fl EXCEPT !.pc = "writing", !.cfg = editor,
               !.read = getOrEmpty(ed), !.toWrite = push(getOrEmpty(ed), editor)]

\* editors[index] = editor; indices skipped past the end are holes
assignAt(list, index, editor) ==
    IF index < Len(list)
    THEN [list EXCEPT ![index + 1] = editor]
    ELSE list \o [k \in 1..(index - Len(list)) |-> Hole] \o <<editor>>

\* updateEditor up to its await
updateEditor(fl, ed, index, editor) ==
    [fl EXCEPT !.pc = "writing",
               !.read = getOrEmpty(ed), !.toWrite = assignAt(getOrEmpty(ed), index, editor)]

\* editors.splice(index, 1)
splice1(list, index) ==
    IF index < Len(list)
    THEN [k \in 1..(Len(list) - 1) |-> IF k <= index THEN list[k] ELSE list[k + 1]]
    ELSE list

\* removeEditor up to its await
removeEditor(fl, ed, index) ==
    [fl EXCEPT !.pc = "writing",
               !.read = getOrEmpty(ed), !.toWrite = splice1(getOrEmpty(ed), index)]

\* the store as it is once a save has been issued from flow record fl
RoomToAdd(ed) == Len(getOrEmpty(ed)) < MaxEditors

-----------------------------------------------------------------------------
(* Add editor *)

\* switch2idea.addEditor invoked: the category quick pick is shown
AddEditor(f) ==
    /\ CanStart(f)
    /\ RoomToAdd(editors)
    /\ flow' = [flow EXCEPT ![f] = [IdleFlow EXCEPT !.pc = "addType", !.kind = "add"]]
    /\ used' = used + 1
    /\ UNCHANGED <<editors, ideaPath, rows, refreshPending, jump, handlers, registered, rendered>>

\* the category quick pick returns
ChooseType(f) ==
    /\ flow[f].pc = "addType"
    /\ \E choice \in {Undefined, "JetBrains", "Custom"} :
          flow' = [flow EXCEPT ![f] =
                    IF choice = Undefined THEN Dismissed(@)
                    ELSE IF choice = "JetBrains"
                         THEN [@ EXCEPT !.pc = "addPreset", !.answer = choice]
                         ELSE [@ EXCEPT !.pc = "addName", !.answer = choice]]
    /\ UNCHANGED <<editors, ideaPath, rows, refreshPending, jump, handlers, registered, used, rendered>>

\* the preset quick pick returns; selectEditorPath shows its quick pick
ChoosePreset(f) ==
    /\ flow[f].pc = "addPreset"
    /\ \E k \in 0..PickablePresets :
          flow' = [flow EXCEPT ![f] =
                    IF k = 0 THEN Dismissed(@)
                    ELSE [@ EXCEPT !.pc = "pathMethod",
                                   !.answer = JETBRAINS_PRESETS[k].name,
                                   !.cfg = EditorConfig(JETBRAINS_PRESETS[k].name,
                                                        JETBRAINS_PRESETS[k].type,
                                                        Undefined,
                                                        JETBRAINS_PRESETS[k].urlScheme)]]
    /\ UNCHANGED <<editors, ideaPath, rows, refreshPending, jump, handlers, registered, used, rendered>>

\* the name input box returns; selectEditorPath shows its quick pick
EnterName(f) ==
    /\ flow[f].pc = "addName"
    /\ \E name \in NameInputs :
          flow' = [flow EXCEPT ![f] =
                    IF name = Undefined THEN Dismissed(@)
                    ELSE IF ~Truthy(name) THEN Returned([@ EXCEPT !.answer = name])
                    ELSE [@ EXCEPT !.pc = "pathMethod", !.answer = name,
                                   !.cfg = EditorConfig(name, "custom", Undefined, Undefined)]]
    /\ UNCHANGED <<editors, ideaPath, rows, refreshPending, jump, handlers, registered, used, rendered>>

\* what the caller of selectEditorPath does with its result: addEditor returns on a
\* falsy path, saves a preset at once and asks a custom editor's URL scheme first;
\* editEditor assigns a truthy path to item.editor and updates unless it is undefined
PathReturned(f, path) ==
    LET fl == flow[f]
        edited == [fl.item.editor EXCEPT !.path = IF Truthy(path) THEN path ELSE @]
    IN  /\ (fl.kind = "add" /\ fl.cfg.type = "jetbrains" /\ Truthy(path)) => RoomToAdd(editors)
        /\ flow' = [g \in Flows |->
              IF g = f
              THEN IF fl.kind = "add"
                   THEN IF path = Undefined THEN Dismissed(fl)
                        ELSE IF ~Truthy(path) THEN Returned([fl EXCEPT !.answer = path])
                        ELSE IF fl.cfg.type = "jetbrains"
                             THEN saveEditor([fl EXCEPT !.answer = path], editors,
                                             [fl.cfg EXCEPT !.path = path])
                             ELSE [fl EXCEPT !.pc = "addScheme", !.answer = path,
                                             !.cfg = [@ EXCEPT !.path = path]]
                   ELSE IF path = Undefined
                        THEN Dismissed(fl)
                        ELSE updateEditor([fl EXCEPT !.answer = path, !.item.editor = edited],
                                          editors, fl.item.index, edited)
              ELSE IF fl.kind = "edit" /\ fl.live /\ flow[g].live
                      /\ flow[g].item.index = fl.item.index
                   THEN [flow[g] EXCEPT !.item.editor = edited]
                   ELSE flow[g]]
        /\ rows' = IF fl.kind = "edit" /\ fl.live
                   THEN [rows EXCEPT ![fl.item.index + 1].editor = edited]
                   ELSE rows
        /\ UNCHANGED <<editors, ideaPath, refreshPending, jump, handlers, registered, used, rendered>>

\* selectEditorPath: the Browse / Enter-manually quick pick returns
ChoosePathMethod(f) ==
    /\ flow[f].pc = "pathMethod"
    /\ \E choice \in {Undefined, "browse", "manual"} :
          flow' = [flow EXCEPT ![f] =
                    IF choice = Undefined THEN Dismissed(@)
                    ELSE IF choice = "browse" THEN [@ EXCEPT !.pc = "pathBrowse"]
                    ELSE [@ EXCEPT !.pc = "pathInput"]]
    /\ UNCHANGED <<editors, ideaPath, rows, refreshPending, jump, handlers, registered, used, rendered>>

\* selectEditorPath: showOpenDialog returns; uris?.[0]?.fsPath goes to the caller
BrowsePath(f) ==
    /\ flow[f].pc = "pathBrowse"
    /\ \E path \in BrowseResults : PathReturned(f, path)

\* selectEditorPath: the path input box returns; its value goes to the caller
EnterPath(f) ==
    /\ flow[f].pc = "pathInput"
    /\ \E path \in PathInputs : PathReturned(f, path)

\* addEditor after the URL scheme input box: urlScheme || undefined, then saveEditor
schemeEntered(fl, ed, urlScheme) ==
    saveEditor([fl EXCEPT !.answer = urlScheme,
                          !.abandoned = @ \/ urlScheme = Undefined],
               ed, [fl.cfg EXCEPT !.urlScheme = OrElse(urlScheme, Undefined)])

\* the URL scheme input box of a custom editor returns
EnterScheme(f) ==
    /\ flow[f].pc = "addScheme"
    /\ RoomToAdd(editors)
    /\ \E urlScheme \in SchemeInputs :
          flow' = [flow EXCEPT ![f] = schemeEntered(@, editors, urlScheme)]
    /\ UNCHANGED <<editors, ideaPath, rows, refreshPending, jump, handlers, registered, used, rendered>>

-----------------------------------------------------------------------------
(* Edit editor *)

\* switch2idea.editEditor invoked on a rendered row: the field quick pick is shown
EditEditor(f) ==
    /\ CanStart(f)
    /\ \E i \in 1..Len(rows) :
          /\ IsEditorItem(rows[i])
          /\ flow' = [flow EXCEPT ![f] =
                       [IdleFlow EXCEPT !.pc = "editField", !.kind = "edit",
                                        !.item = rows[i], !.live = TRUE]]
    /\ used' = used + 1
    /\ UNCHANGED <<editors, ideaPath, rows, refreshPending, jump, handlers, registered, rendered>>

\* the field quick pick returns; the matching prompt is shown
ChooseField(f) ==
    /\ flow[f].pc = "editField"
    /\ \E choice \in {Undefined, "Name", "Path", "URL Scheme"} :
          flow' = [flow EXCEPT ![f] =
                    IF choice = Undefined THEN Dismissed(@)
                    ELSE [@ EXCEPT !.field = choice,
                                   !.pc = CASE choice = "Name" -> "editName"
                                            [] choice = "Path" -> "pathMethod"
                                            [] OTHER -> "editScheme"]]
    /\ UNCHANGED <<editors, ideaPath, rows, refreshPending, jump, handlers, registered, used, rendered>>

\* item.editor after the Name case: if (newValue) editor.name = newValue
nameEdited(editor, newValue) ==
    [editor EXCEPT !.name = IF Truthy(newValue) THEN newValue ELSE @]

\* item.editor after the URL Scheme case: editor.urlScheme = newValue || undefined
schemeEdited(editor, newValue) ==
    [editor EXCEPT !.urlScheme = OrElse(newValue, Undefined)]

\* editEditor from the return of the Name or URL Scheme input box to its end or to
\* the await in updateEditor: item.editor is assigned in place (the row object and
\* every invocation holding it see the change), then updateEditor runs unless
\* newValue is undefined
FieldEntered(f, newValue, edited) ==
    LET fl == flow[f]
    IN  /\ flow' = [g \in Flows |->
              IF g = f
              THEN IF newValue = Undefined
                   THEN Dismissed([fl EXCEPT !.item.editor = edited])
                   ELSE updateEditor([fl EXCEPT !.answer = newValue, !.item.editor = edited],
                                     editors, fl.item.index, edited)
              ELSE IF fl.live /\ flow[g].live /\ flow[g].item.index = fl.item.index
                   THEN [flow[g] EXCEPT !.item.editor = edited]
                   ELSE flow[g]]
        /\ rows' = IF fl.live
                   THEN [rows EXCEPT ![fl.item.index + 1].editor = edited]
                   ELSE rows
        /\ UNCHANGED <<editors, ideaPath, refreshPending, jump, handlers, registered, used, rendered>>

\* the new-name input box returns
EnterNewName(f) ==
    /\ flow[f].pc = "editName"
    /\ \E newValue \in {Undefined, "", "Renamed"} :
          FieldEntered(f, newValue, nameEdited(flow[f].item.editor, newValue))

\* the new-URL-scheme input box returns
EnterNewScheme(f) ==
    /\ flow[f].pc = "editScheme"
    /\ \E newValue \in SchemeInputs :
          FieldEntered(f, newValue, schemeEdited(flow[f].item.editor, newValue))

-----------------------------------------------------------------------------
(* Delete editor *)

\* switch2idea.deleteEditor invoked on a rendered row: the modal warning is shown
DeleteEditor(f) ==
    /\ CanStart(f)
    /\ \E i \in 1..Len(rows) :
          /\ IsEditorItem(rows[i])
          /\ flow' = [flow EXCEPT ![f] =
                       [IdleFlow EXCEPT !.pc = "confirm", !.kind = "delete",
                                        !.item = rows[i], !.live = TRUE]]
    /\ used' = used + 1
    /\ UNCHANGED <<editors, ideaPath, rows, refreshPending, jump, handlers, registered, rendered>>

\* the modal warning returns: 'Delete' runs removeEditor, anything else ends the command
ConfirmDelete(f) ==
    /\ flow[f].pc = "confirm"
    /\ \E confirm \in {Undefined, "Delete"} :
          flow' = [flow EXCEPT ![f] =
                    IF confirm = "Delete"
                    THEN removeEditor([@ EXCEPT !.answer = confirm], editors, @.item.index)
                    ELSE Dismissed(@)]
    /\ UNCHANGED <<editors, ideaPath, rows, refreshPending, jump, handlers, registered, used, rendered>>

-----------------------------------------------------------------------------
(* The settings write, the view and the environment *)

\* a mutant of WriteCompletes: an add is applied to the list as stored when the
\* write resolves, not to the list that was read
WriteCompletesRebased(f) ==
    /\ flow[f].pc = "writing"
    /\ editors' = IF flow[f].kind = "add"
                  THEN Stored(push(getOrEmpty(editors), flow[f].cfg))
                  ELSE Stored(flow[f].toWrite)
    /\ refreshPending' = TRUE
    /\ flow' = [flow EXCEPT ![f] = Ended([@ EXCEPT !.confirmed = TRUE])]
    /\ UNCHANGED <<ideaPath, rows, jump, handlers, registered, used, rendered>>

\* config.update resolves: the list is stored, the configuration listener and the
\* rest of save/update/remove fire a refresh, and the command shows its confirmation
WriteCompletes(f) ==
    /\ flow[f].pc = "writing"
    /\ editors' = Stored(flow[f].toWrite)
    /\ refreshPending' = TRUE
    /\ flow' = [flow EXCEPT ![f] = Ended([@ EXCEPT !.confirmed = TRUE])]
    /\ UNCHANGED <<ideaPath, rows, jump, handlers, registered, used, rendered>>

\* the host answers a refresh by calling getChildren: new row objects replace the
\* old ones, which only the invocations that were given them still hold
Render ==
    /\ refreshPending
    /\ rows' = getChildren(editors, ideaPath)
    /\ refreshPending' = FALSE
    /\ flow' = [g \in Flows |-> [flow[g] EXCEPT !.live = FALSE]]
    /\ rendered' = [editors |-> editors, ideaPath |-> ideaPath]
    /\ UNCHANGED <<editors, ideaPath, jump, handlers, registered, used>>

\* switch2idea.editors is changed outside the extension; the configuration
\* listener fires a refresh
ExternalChange ==
    /\ used < MaxEvents
    /\ \E ed \in ExternalLists : editors' = ed /\ ed # editors
    /\ refreshPending' = TRUE
    /\ used' = used + 1
    /\ UNCHANGED <<ideaPath, rows, flow, jump, handlers, registered, rendered>>

\* switch2idea.ideaPath is changed outside the extension; the listener tests
\* only switch2idea.editors and switch2idea.showTreeView, so nothing is refreshed
LegacyChange ==
    /\ used < MaxEvents
    /\ \E legacy \in LegacyValues : ideaPath' = legacy /\ legacy # ideaPath
    /\ used' = used + 1
    /\ UNCHANGED <<editors, rows, refreshPending, flow, jump, handlers, registered, rendered>>

-----------------------------------------------------------------------------
(* Editor selector *)

\* a mutant of selectEditorStart: the shortcut for a single editor is missing
selectEditorStartAlwaysPrompts(list) ==
    IF \E k \in 1..Len(list) : list[k] = Hole
    THEN [does |-> "throw", value |-> Hole]
    ELSE [does |-> "prompt", value |-> Hole]

\* selectEditor up to its await: one entry is returned at once; otherwise the quick
\* pick items are built from every entry (reading a null entry's name throws) and
\* the quick pick is shown
selectEditorStart(list) ==
    IF Len(list) = 1
    THEN [does |-> "return", value |-> list[1]]
    ELSE IF \E k \in 1..Len(list) : list[k] = Hole
         THEN [does |-> "throw", value |-> Hole]
         ELSE [does |-> "prompt", value |-> Hole]

\* a mutant of selectEditorPicked: the last entry of that name
selectEditorPickedLast(list, label) ==
    IF \E k \in 1..Len(list) : list[k].name = label
    THEN list[CHOOSE k \in 1..Len(list) :
                 list[k].name = label /\ \A j \in (k + 1)..Len(list) : list[j].name # label]
    ELSE Hole

\* editors.find(e => e.name === selected.label): the first entry of that name, or
\* undefined (here Hole, which is falsy like undefined)
selectEditorPicked(list, label) ==
    IF \E k \in 1..Len(list) : list[k].name = label
    THEN list[CHOOSE k \in 1..Len(list) :
                 list[k].name = label /\ \A j \in 1..(k - 1) : list[j].name # label]
    ELSE Hole

-----------------------------------------------------------------------------
(* Entry point: the jump commands *)

noActiveEditor == Message("No active file! Please open a file first.", << >>)

noWorkspace == Message("No workspace open! Please open a project folder first.", << >>)

\* the TypeError `editor.name` raises on a null entry
nullEntryError == Message("TypeError: Cannot read properties of null (reading 'name')", << >>)

NoContext == JumpContext(Undefined, Undefined, NoNumber, NoNumber)

\* what a jump command finds when it is invoked: whether it was given a uri, whether
\* a document is active, and how many workspace folders are open (NoNumber when
\* workspaceFolders is undefined)
NoInputs == [target |-> FALSE, document |-> FALSE, folders |-> NoNumber]

NoRejection == Message("", << >>)

IdleJump ==
    [ pc       |-> "idle",       \* "prompt" (quick pick awaited), "exec" (process running), "done"
      command  |-> "none",       \* openFile | openProject | jumpToEditor
      given    |-> NoInputs,     \* history: what the command found when it was invoked
      platform |-> "linux",      \* what os.platform() returns during this invocation
      context  |-> NoContext,    \* the JumpContext the command built
      list     |-> << >>,        \* the editors handed to selectEditor
      prompted |-> FALSE,        \* showQuickPick was called
      picked   |-> NoNumber,     \* 0-based position of the quick pick row the user chose
      selected |-> Hole,         \* what selectEditor returned (Hole: nothing)
      looked   |-> FALSE,        \* getHandler was called
      config   |-> Hole,         \* the EditorConfig handed to handler.jump
      launched |-> << >>,        \* the command line handed to exec
      started  |-> FALSE,        \* exec was called
      shown    |-> << >>,        \* the messages passed to showErrorMessage, in order
      failure  |-> "none",       \* where an error was raised
      exit     |-> NoError,      \* history: what exec handed its callback
      rejected |-> NoRejection ] \* the error a directly called handler.jump rejected with

\* One jump command per run: a finished invocation leaves nothing behind that a later
\* one reads (its record is overwritten and it writes no setting), so a later
\* invocation behaves as the first one of the run without its predecessors.
CanJump == jump.pc = "idle"

\* the catch block of executeJump / executeJumpToEditor: show err.message, return
catch(j, error, where) ==
    [j EXCEPT !.pc = "done", !.shown = Append(@, error), !.failure = where]

\* executeCommand's callback on an error: it shows the message and rejects with it;
\* the rejection reaches the catch block of the command
executeCommandFailed(j, error) ==
    catch([j EXCEPT !.shown = Append(@, error)], error, "exec")

\* getHandler(editor.type), then handler.jump(editor, context) up to the await of
\* the child process
launch(j, editor) ==
    LET found == getHandler(handlers, editor.type)
        built == buildCommand(j.platform, editor, j.context)
    IN  IF ~found.ok
        THEN catch([j EXCEPT !.looked = TRUE], found.error, "registry")
        ELSE IF ~built.ok
             THEN catch([j EXCEPT !.looked = TRUE, !.config = editor], built.error, "build")
             ELSE [j EXCEPT !.pc = "exec", !.looked = TRUE, !.config = editor,
                            !.launched = built.command, !.started = TRUE]

\* a mutant of selected: the check for a cancelled selection is missing
selectedUnchecked(j, editor) == launch([j EXCEPT !.selected = editor], editor)

\* executeJump after selectEditor has returned
selected(j, editor) ==
    IF editor = Hole
    THEN [j EXCEPT !.pc = "done", !.selected = editor]
    ELSE launch([j EXCEPT !.selected = editor], editor)

\* executeJump up to its first await that suspends
executeJump(j) ==
    LET list == getEditors(editors, ideaPath)
        start == selectEditorStart(list)
    IN  CASE start.does = "return" -> selected([j EXCEPT !.list = list], start.value)
          [] start.does = "throw" -> catch([j EXCEPT !.list = list], nullEntryError, "selector")
          [] OTHER -> [j EXCEPT !.pc = "prompt", !.list = list, !.prompted = TRUE]

\* vscode.window.activeTextEditor: none, or a document with its cursor
NoEditor == [open |-> FALSE, path |-> Undefined, line |-> 0, character |-> 0]

ActiveEditors ==
    {NoEditor} \cup [open : {TRUE}, path : {"/w/a.ts"},
                     line : 0..MaxCursor, character : 0..MaxCursor]

\* the uri argument of Switch2IDEA.openFileInIDEA
Uris == {Undefined, "/w/a.ts", "/w/b.ts"}

\* vscode.workspace.workspaceFolders
WorkspaceFolders ==
    { [defined |-> FALSE, paths |-> << >>], [defined |-> TRUE, paths |-> << >>],
      [defined |-> TRUE, paths |-> <<"/w">>], [defined |-> TRUE, paths |-> <<"/w", "/v">>] }

Invoked(command, platform) ==
    [IdleJump EXCEPT !.command = command, !.platform = platform]

\* a mutant of OpenFileInIDEA: the cursor line is passed 0-based, as the host gives it
OpenFileInIDEAZeroBased ==
    /\ CanJump
    /\ \E platform \in Platforms, uri \in Uris, editor \in ActiveEditors :
          LET j == [Invoked("openFile", platform) EXCEPT
                       !.given = [NoInputs EXCEPT !.target = (uri # Undefined),
                                                  !.document = editor.open]]
              cursor == IF uri # Undefined
                        THEN IF editor.open /\ editor.path = uri
                             THEN JumpContext(uri, Undefined, editor.line, editor.character)
                             ELSE JumpContext(uri, Undefined, 1, 0)
                        ELSE JumpContext(editor.path, Undefined,
                                         editor.line, editor.character)
          IN  jump' = IF uri = Undefined /\ ~editor.open
                      THEN [j EXCEPT !.pc = "done", !.shown = <<noActiveEditor>>,
                                     !.failure = "precondition"]
                      ELSE executeJump([j EXCEPT !.context = cursor])
    /\ UNCHANGED <<editors, ideaPath, rows, refreshPending, flow, handlers, registered, used, rendered>>

\* Switch2IDEA.openFileInIDEA
OpenFileInIDEA ==
    /\ CanJump
    /\ \E platform \in Platforms, uri \in Uris, editor \in ActiveEditors :
          LET j == [Invoked("openFile", platform) EXCEPT
                       !.given = [NoInputs EXCEPT !.target = (uri # Undefined),
                                                  !.document = editor.open]]
              cursor == IF uri # Undefined
                        THEN IF editor.open /\ editor.path = uri
                             THEN JumpContext(uri, Undefined, editor.line + 1, editor.character)
                             ELSE JumpContext(uri, Undefined, 1, 0)
                        ELSE JumpContext(editor.path, Undefined,
                                         editor.line + 1, editor.character)
          IN  jump' = IF uri = Undefined /\ ~editor.open
                      THEN [j EXCEPT !.pc = "done", !.shown = <<noActiveEditor>>,
                                     !.failure = "precondition"]
                      ELSE executeJump([j EXCEPT !.context = cursor])
    /\ UNCHANGED <<editors, ideaPath, rows, refreshPending, flow, handlers, registered, used, rendered>>

\* Switch2IDEA.openProjectInIDEA
OpenProjectInIDEA ==
    /\ CanJump
    /\ \E platform \in Platforms, folders \in WorkspaceFolders :
          LET j == [Invoked("openProject", platform) EXCEPT
                       !.given = [NoInputs EXCEPT !.folders =
                                     IF folders.defined THEN Len(folders.paths)
                                     ELSE NoNumber]]
          IN  jump' = IF ~folders.defined \/ Len(folders.paths) = 0
                      THEN [j EXCEPT !.pc = "done", !.shown = <<noWorkspace>>,
                                     !.failure = "precondition"]
                      ELSE executeJump([j EXCEPT !.context =
                              [NoContext EXCEPT !.projectPath = folders.paths[1]]])
    /\ UNCHANGED <<editors, ideaPath, rows, refreshPending, flow, handlers, registered, used, rendered>>

\* a mutant of JumpToEditor: the check for an active document is missing
JumpToEditorUnguarded ==
    /\ CanJump
    /\ \E platform \in Platforms, i \in 1..Len(rows), editor \in ActiveEditors :
          LET j == [Invoked("jumpToEditor", platform) EXCEPT
                       !.given = [NoInputs EXCEPT !.document = editor.open]]
          IN  /\ IsEditorItem(rows[i])
              /\ jump' = launch([j EXCEPT !.context =
                                    JumpContext(editor.path, Undefined,
                                                editor.line + 1, editor.character)],
                                rows[i].editor)
    /\ UNCHANGED <<editors, ideaPath, rows, refreshPending, flow, handlers, registered, used, rendered>>

\* switch2idea.jumpToEditor on a rendered row: executeJumpToEditor(item.editor, ...)
JumpToEditor ==
    /\ CanJump
    /\ \E platform \in Platforms, i \in 1..Len(rows), editor \in ActiveEditors :
          LET j == [Invoked("jumpToEditor", platform) EXCEPT
                       !.given = [NoInputs EXCEPT !.document = editor.open]]
          IN  /\ IsEditorItem(rows[i])
              /\ jump' = IF ~editor.open
                         THEN [j EXCEPT !.pc = "done", !.shown = <<noActiveEditor>>,
                                        !.failure = "precondition"]
                         ELSE launch([j EXCEPT !.context =
                                         JumpContext(editor.path, Undefined,
                                                     editor.line + 1, editor.character)],
                                     rows[i].editor)
    /\ UNCHANGED <<editors, ideaPath, rows, refreshPending, flow, handlers, registered, used, rendered>>

\* the quick pick of selectEditor returns: a row, or nothing when it is dismissed
PickEditor ==
    /\ jump.pc = "prompt"
    /\ \E k \in 0..Len(jump.list) :
          jump' = IF k = 0
                  THEN selected(jump, Hole)
                  ELSE selected([jump EXCEPT !.picked = k - 1],
                                selectEditorPicked(jump.list, jump.list[k].name))
    /\ UNCHANGED <<editors, ideaPath, rows, refreshPending, flow, handlers, registered, used, rendered>>

\* the child process ends and exec calls back
ProcessExits ==
    /\ jump.pc = "exec"
    /\ \E result \in ExecResults :
          jump' = IF result.failed
                  THEN executeCommandFailed([jump EXCEPT !.exit = result],
                          executeCommandError(jump.platform, jump.config, result))
                  ELSE [jump EXCEPT !.pc = "done", !.exit = result]
    /\ UNCHANGED <<editors, ideaPath, rows, refreshPending, flow, handlers, registered, used, rendered>>

-----------------------------------------------------------------------------
(* The launch handler called directly, as its interface allows *)

\* the JumpContexts a caller of JumpHandler.jump can pass: every field is optional
HandlerContexts ==
    [filePath : {Undefined, "", "/w/a.ts"}, projectPath : {Undefined, "/w"},
     line : {NoNumber} \cup 0..(MaxCursor + 1), column : {NoNumber} \cup 0..MaxCursor]

\* the EditorConfigs a caller can pass: names in several letter cases, names with
\* more than one table key, names with none; with and without a configured path
HandlerConfigs ==
    { EditorConfig(name, "jetbrains", path, urlScheme) :
         name \in {"WebStorm", "webstorm", "MY WEBSTORM", "PyCharm WebStorm",
                   "Android Studio", "RustRover", "Sublime", ""},
         path \in {"", "/opt/ide"},
         urlScheme \in {Undefined, "pycharm"} }

\* what exec hands its callback, with every text executeCommand looks for
HandlerExecResults ==
    ExecResults \cup { ExecError("idea: (zh) not found", {"zh:not found"}, 1),
                       ExecError("spawn idea ENOENT", {"ENOENT"}, 127),
                       ExecError("Permission denied", {}, 126) }

\* JetBrainsHandler.jump up to the await of the child process: an error thrown by
\* buildCommand rejects the promise jump returns
handlerJump(j, config) ==
    LET built == buildCommand(j.platform, config, j.context)
    IN  IF ~built.ok
        THEN [j EXCEPT !.pc = "done", !.config = config, !.failure = "build",
                       !.rejected = built.error]
        ELSE [j EXCEPT !.pc = "exec", !.config = config,
                       !.launched = built.command, !.started = TRUE]

\* JetBrainsHandler.jump(config, context) is called
Jump ==
    /\ jump.pc = "idle"
    /\ \E platform \in Platforms, config \in HandlerConfigs, context \in HandlerContexts :
          jump' = handlerJump([Invoked("jump", platform) EXCEPT !.context = context], config)
    /\ UNCHANGED <<editors, ideaPath, rows, refreshPending, flow, handlers, registered, used,
                   rendered>>

\* executeCommand's exec callback when jump was called directly: on an error the
\* message is shown and the promise is rejected with it, otherwise it resolves
ExecCallback ==
    /\ jump.pc = "exec"
    /\ jump.command = "jump"
    /\ \E result \in HandlerExecResults :
          LET error == executeCommandError(jump.platform, jump.config, result)
          IN  jump' = IF result.failed
                      THEN [jump EXCEPT !.pc = "done", !.exit = result,
                                        !.shown = Append(@, error), !.failure = "exec",
                                        !.rejected = error]
                      ELSE [jump EXCEPT !.pc = "done", !.exit = result]
    /\ UNCHANGED <<editors, ideaPath, rows, refreshPending, flow, handlers, registered, used,
                   rendered>>

Init ==
    /\ editors \in ExternalLists
    /\ ideaPath \in LegacyValues
    /\ rows = << >>
    /\ refreshPending = TRUE
    /\ flow = [f \in Flows |-> IdleFlow]
    /\ jump = IdleJump
    /\ handlers = SeededHandlers
    /\ registered = << >>
    /\ used = 0
    /\ rendered = [editors |-> Absent, ideaPath |-> Undefined]

SidebarStep(f) ==
    \/ AddEditor(f)
    \/ ChooseType(f)
    \/ ChoosePreset(f)
    \/ EnterName(f)
    \/ ChoosePathMethod(f)
    \/ BrowsePath(f)
    \/ EnterPath(f)
    \/ EnterScheme(f)
    \/ EditEditor(f)
    \/ ChooseField(f)
    \/ EnterNewName(f)
    \/ EnterNewScheme(f)
    \/ DeleteEditor(f)
    \/ ConfirmDelete(f)
    \/ WriteCompletes(f)

Next ==
    \/ SidebarStep("f1")
    \/ Render
    \/ ExternalChange
    \/ LegacyChange

Spec == Init /\ [][Next]_vars

\* the store and the view change until the jump command of the run is invoked; the
\* command reads the store once, at its start, and never writes it
StoreStep ==
    /\ jump.pc = "idle"
    /\ (Render \/ ExternalChange \/ LegacyChange)

NextJump ==
    \/ OpenFileInIDEA
    \/ OpenProjectInIDEA
    \/ JumpToEditor
    \/ PickEditor
    \/ ProcessExits
    \/ StoreStep

\* one jump command, invoked in any store and view the extension can find
SpecJump == Init /\ [][NextJump]_vars

\* the registry is extended until the jump command of the run is invoked
RegistryStep ==
    /\ jump.pc = "idle"
    /\ (RegisterHandler \/ Render)

NextRegistry ==
    \/ JumpToEditor
    \/ ProcessExits
    \/ RegistryStep

\* registerHandler calls followed by one jump from a sidebar row, which looks the
\* handler of the row's editor type up
SpecRegistry == Init /\ [][NextRegistry]_vars

\* a sidebar command that is invoked once in the run
RaceStep(f) == flow[f].pc # "done" /\ SidebarStep(f)

NextRace ==
    \/ RaceStep("f1")
    \/ RaceStep("f2")
    \/ Render
    \/ ExternalChange

\* two sidebar commands invoked in quick succession, each suspended at its prompts
\* and at its settings write while the other runs, with outside changes of the list
SpecRace == Init /\ [][NextRace]_vars

NextHandler ==
    \/ Jump
    \/ ExecCallback

\* the handler reads no setting, so one store stands for all
InitHandler == Init /\ editors = Absent /\ ideaPath = Undefined

\* one direct call of JetBrainsHandler.jump with any configuration and context
SpecHandler == InitHandler /\ [][NextHandler]_vars

-----------------------------------------------------------------------------
(* Properties of the configuration store reader *)

\* C1: for every store state, getEditors returns the primary list verbatim when it
\* is non-empty, whatever the legacy value; otherwise, for a legacy path that is
\* present and non-empty, the single entry {IntelliJ IDEA, jetbrains, legacy path,
\* idea}; otherwise the single entry {IntelliJ IDEA, jetbrains, '', idea}.
C1_GetEditorsResolution ==
    LET got == getEditors(editors, ideaPath)
    IN  /\ (editors.present /\ editors.list # << >>) => got = editors.list
        /\ (~(editors.present /\ editors.list # << >>) /\ ideaPath \notin {Undefined, ""})
              => got = << [name |-> "IntelliJ IDEA", type |-> "jetbrains",
                           path |-> ideaPath, urlScheme |-> "idea"] >>
        /\ (~(editors.present /\ editors.list # << >>) /\ ideaPath \in {Undefined, ""})
              => got = << [name |-> "IntelliJ IDEA", type |-> "jetbrains",
                           path |-> "", urlScheme |-> "idea"] >>

\* the sidebar has rendered the one row synthesized from the legacy key while the
\* primary list is empty
C1_Witness ==
    /\ ~refreshPending
    /\ getOrEmpty(editors) = << >>
    /\ ideaPath = "/opt/idea"
    /\ rendered = [editors |-> editors, ideaPath |-> ideaPath]
    /\ Len(rows) = 2
    /\ rows[1].editor = EditorConfig("IntelliJ IDEA", "jetbrains", "/opt/idea", "idea")

\* C2: in every state reached by sidebar adds, edits, deletes and outside changes of
\* the store, getEditors returns a list of at least one entry, and the getChildren
\* call that reads it leaves both store keys as they were.
C2_GetEditorsTotal ==
    [][ /\ Len(getEditors(editors, ideaPath)) >= 1
        /\ Len(getEditors(editors', ideaPath')) >= 1
        /\ (refreshPending /\ ~refreshPending')
              => (editors' = editors /\ ideaPath' = ideaPath) ]_vars

\* a confirmed delete has emptied the stored list and the sidebar has rendered the
\* built-in default in its place
C2_Witness ==
    /\ flow["f1"].pc = "done" /\ flow["f1"].kind = "delete" /\ flow["f1"].confirmed
    /\ editors = Stored(<< >>)
    /\ ~Truthy(ideaPath)
    /\ ~refreshPending
    /\ Len(rows) = 2
    /\ rows[1].editor = getDefaultEditors[1]

-----------------------------------------------------------------------------
(* Properties of the sidebar commands *)

\* the step on which the settings write of a command of the given kind resolves
Lands(f, kind) ==
    flow[f].pc = "writing" /\ flow[f].kind = kind /\ flow'[f].pc = "done"

\* nothing has touched the store or the view between the rendering of the row the
\* command was given and the resolution of its write
Undisturbed(f) ==
    /\ flow[f].live
    /\ rendered = [editors |-> editors, ideaPath |-> ideaPath]
    /\ flow[f].read = getOrEmpty(editors)

\* C4: when an add flow runs to completion with new config e, the stored list is
\* the list L that saveEditor read followed by e: one entry longer, every prior entry
\* unchanged and in the same position.
C4_AddAppends ==
    [][ \A f \in Flows :
          Lands(f, "add") =>
             /\ editors'.present
             /\ editors'.list = flow[f].read \o <<flow[f].cfg>>
             /\ Len(editors'.list) = Len(flow[f].read) + 1
             /\ \A k \in 1..Len(flow[f].read) : editors'.list[k] = flow[f].read[k]
             /\ flow'[f].confirmed ]_vars

\* a preset was added behind an entry that was already stored
C4_Witness ==
    /\ flow["f1"].pc = "done" /\ flow["f1"].kind = "add" /\ flow["f1"].confirmed
    /\ editors = Stored(<<SublimeC, EditorConfig("WebStorm", "jetbrains", "/opt/ide", "webstorm")>>)

\* C5: a delete the user confirms on the row rendered at position i removes exactly
\* the entry at position i of the stored list (one entry shorter, entries before i
\* unchanged, entries after i moved down by one); a delete the user does not confirm
\* leaves the stored list unchanged.  Stated for rows that are up to date.
C5_DeleteRemovesRow ==
    [][ \A f \in Flows :
          /\ (Lands(f, "delete") /\ Undisturbed(f)) =>
                LET L == flow[f].read
                    i == flow[f].item.index
                IN  /\ Len(editors'.list) = Len(L) - 1
                    /\ \A k \in 1..Len(editors'.list) :
                          editors'.list[k] = IF k <= i THEN L[k] ELSE L[k + 1]
          /\ (flow[f].pc = "confirm" /\ flow'[f].pc = "done") => editors' = editors ]_vars

\* C6: a completed edit of one field of the row rendered at position i writes the
\* changed EditorConfig at position i and changes nothing else: the list length and
\* every other entry are as before, and the fields of entry i that were not chosen
\* keep their stored values.  Stated for rows that are up to date and were rendered
\* from a stored entry.
C6_EditWritesRowInPlace ==
    [][ \A f \in Flows :
          (Lands(f, "edit") /\ Undisturbed(f) /\ flow[f].item.index < Len(flow[f].read)) =>
             LET L == flow[f].read
                 i == flow[f].item.index + 1
                 A == editors'.list
             IN  /\ Len(A) = Len(L)
                 /\ \A k \in 1..Len(L) : k # i => A[k] = L[k]
                 /\ A[i] = flow[f].item.editor
                 /\ A[i].type = L[i].type
                 /\ flow[f].field # "Name" => A[i].name = L[i].name
                 /\ flow[f].field # "Path" => A[i].path = L[i].path
                 /\ flow[f].field # "URL Scheme" => A[i].urlScheme = L[i].urlScheme ]_vars

\* C7: in the add flow, if the user abandons the prompt of any step, the whole add
\* is cancelled: no write of the stored list is issued and no confirmation is shown.
C7_AbandonCancelsAdd ==
    \A f \in Flows :
       (flow[f].kind = "add" /\ flow[f].abandoned)
          => (flow[f].pc = "done" /\ ~flow[f].confirmed)

-----------------------------------------------------------------------------
(* Properties of the jump commands *)

\* C3: for every failure raised in a jump sequence (selector, registry lookup,
\* command construction, process execution), in the open-file, open-project and
\* jump-from-row flows, exactly one error notification is shown for that command
\* invocation and the command handler completes.
C3_OneErrorNotification ==
    jump.failure \in {"selector", "registry", "build", "exec"}
       => (jump.pc = "done" /\ Len(jump.shown) = 1)

\* C8: when the editor quick pick is dismissed during an open-file or open-project
\* flow, the flow ends as a silent no-op: no handler is looked up, no process is
\* started, no error notification is shown, and the store is unchanged.
C8_DismissedSelectionIsSilent ==
    [][ (jump.pc = "prompt" /\ jump'.pc # "prompt" /\ jump'.picked = NoNumber)
           => /\ jump'.pc = "done"
              /\ jump'.selected = Hole
              /\ ~jump'.looked
              /\ ~jump'.started
              /\ jump'.shown = << >>
              /\ jump'.failure = "none"
              /\ editors' = editors /\ ideaPath' = ideaPath ]_vars

\* the quick pick of an open-project flow over two editors was dismissed
C8_Witness ==
    /\ jump.command = "openProject"
    /\ jump.pc = "done" /\ jump.prompted /\ jump.picked = NoNumber
    /\ Len(jump.list) = 2
    /\ jump.shown = << >>

\* C9: selectEditor on a list with exactly one entry returns that entry without
\* presenting a prompt; a prompt is presented only when the list does not have
\* exactly one entry.
C9_SingleEditorNoPrompt ==
    /\ Len(jump.list) = 1 => (~jump.prompted /\ jump.selected = jump.list[1])
    /\ jump.prompted => Len(jump.list) # 1

\* an open-file flow over a single stored editor went straight to the launch
C9_Witness ==
    /\ jump.command = "openFile"
    /\ jump.list = <<WebStormA>>
    /\ ~jump.prompted
    /\ jump.selected = WebStormA
    /\ jump.started

\* the first position of the list that carries the name of the picked row
FirstOfName(list, at) ==
    CHOOSE k \in 1..Len(list) :
       list[k].name = list[at].name /\ \A j \in 1..(k - 1) : list[j].name # list[at].name

\* C10 as claimed: for every list of two or more editors and every row the user
\* picks, selectEditor returns the EditorConfig the picked row was built from.
C10_PickedRowReturned ==
    jump.picked # NoNumber => jump.selected = jump.list[jump.picked + 1]

\* C10 as amended: selectEditor returns the first entry of the list whose name equals
\* the picked row's label, which is the entry the row was built from whenever no
\* earlier entry has that name; the handler is looked up by that entry's type and
\* the command is built from that entry's path and urlScheme.
C10_FirstOfNameReturned ==
    jump.picked # NoNumber =>
       LET at == jump.picked + 1
           entry == jump.list[FirstOfName(jump.list, at)]
       IN  /\ Len(jump.list) >= 2
           /\ jump.selected = entry
           /\ (FirstOfName(jump.list, at) = at) => jump.selected = jump.list[at]
           /\ jump.looked
           /\ (jump.failure = "registry") <=> (entry.type \notin DOMAIN handlers)
           /\ jump.started =>
                 /\ jump.config = entry
                 /\ jump.launched = buildCommand(jump.platform, entry, jump.context).command

\* the second row of a two-editor quick pick was picked and its editor launched
C10_Witness ==
    /\ jump.list = <<SublimeC, WebStormA>>
    /\ jump.picked = 1
    /\ jump.selected = WebStormA
    /\ jump.started

-----------------------------------------------------------------------------
(* Properties of the handler registry *)

\* the registerHandler calls made so far for the given type, by position
CallsFor(type) == {k \in 1..Len(registered) : registered[k].type = type}

\* C11: on a freshly constructed registry getHandler('jetbrains') returns the
\* JetBrains handler and getHandler('custom') fails with the error whose message
\* names 'custom' and lists 'jetbrains' as supported; in general getHandler(t) fails
\* with that error exactly when no handler is registered for t, and a jump on an
\* editor of such a type shows that message and starts nothing.
C11_GetHandlerFailsWhenUnregistered ==
    /\ registered = << >> =>
          /\ getHandler(handlers, "jetbrains").ok
          /\ getHandler(handlers, "jetbrains").handler = "JetBrainsHandler"
          /\ ~getHandler(handlers, "custom").ok
          /\ getHandler(handlers, "custom").error =
                [id |-> "Unsupported editor type: {0}. Currently supported types: jetbrains",
                 args |-> <<"custom">>]
    /\ \A t \in EditorTypes :
          /\ ~getHandler(handlers, t).ok <=> (t # "jetbrains" /\ CallsFor(t) = {})
          /\ ~getHandler(handlers, t).ok =>
                getHandler(handlers, t).error =
                   [id |-> "Unsupported editor type: {0}. Currently supported types: jetbrains",
                    args |-> <<t>>]
    /\ jump.failure = "registry" =>
          /\ CallsFor("custom") = {}
          /\ jump.shown = << getHandler(handlers, "custom").error >>
          /\ ~jump.started
    /\ (jump.started /\ jump.config.type = "custom") => CallsFor("custom") # {}

\* a jump from the row of a custom editor failed on the freshly constructed registry
C11_Witness ==
    /\ registered = << >>
    /\ jump.command = "jumpToEditor"
    /\ jump.failure = "registry"
    /\ jump.shown = << [id |-> "Unsupported editor type: {0}. Currently supported types: jetbrains",
                        args |-> <<"custom">>] >>

\* C12: after any sequence of registerHandler calls, getHandler(t) returns the
\* handler most recently registered for t, or the seeded JetBrains handler for
\* t = jetbrains when none was registered; a registerHandler call leaves the mapping
\* of every other type as it was, and no mapping is ever removed.
C12_LastRegistrationWins ==
    [][ /\ \A t \in EditorTypes :
              IF CallsFor(t)' # {}
              THEN LET last == CHOOSE k \in CallsFor(t)' : \A j \in CallsFor(t)' : j <= k
                   IN  /\ getHandler(handlers', t).ok
                       /\ getHandler(handlers', t).handler = registered'[last].handler
              ELSE IF t = "jetbrains"
                   THEN /\ getHandler(handlers', t).ok
                        /\ getHandler(handlers', t).handler = "JetBrainsHandler"
                   ELSE ~getHandler(handlers', t).ok
        /\ \A t \in DOMAIN handlers : t \in DOMAIN handlers'
        /\ \A t \in DOMAIN handlers :
              (Len(registered') = Len(registered) \/ registered'[Len(registered')].type # t)
                 => handlers'[t] = handlers[t] ]_vars

\* the handler of 'custom' was registered and then replaced, the seeded handler of
\* 'jetbrains' is still in place, and a custom editor was launched
C12_Witness ==
    /\ registered = << [type |-> "custom", handler |-> "JetBrainsHandlerB"],
                       [type |-> "custom", handler |-> "JetBrainsHandler"] >>
    /\ handlers["custom"] = "JetBrainsHandler"
    /\ handlers["jetbrains"] = "JetBrainsHandler"
    /\ jump.started /\ jump.config.type = "custom"

-----------------------------------------------------------------------------
(* Properties of the launch handler *)

HasPart(command, part) == \E k \in 1..Len(command) : command[k] = part

PartAt(command, part) == CHOOSE k \in 1..Len(command) : command[k] = part

\* C13: for a file target on both platform branches, the line part (&line= on
\* macOS, --line elsewhere) is in the command exactly when line is present and
\* non-zero, and the column part (&column= / --column) exactly when column is
\* defined, column 0 included; each part carries its number, the line part precedes
\* the column part, and a project target carries neither.
C13_LineColumnParts ==
    (jump.command = "jump" /\ jump.started) =>
       LET c == jump.context
           cmd == jump.launched
           mac == jump.platform = "darwin"
           linePart == IF mac THEN "&line=" ELSE " --line "
           columnPart == IF mac THEN "&column=" ELSE " --column "
           file == c.filePath \notin {Undefined, ""}
       IN  /\ HasPart(cmd, linePart) <=> (file /\ c.line # NoNumber /\ c.line # 0)
           /\ HasPart(cmd, columnPart) <=> (file /\ c.column # NoNumber)
           /\ HasPart(cmd, linePart) => cmd[PartAt(cmd, linePart) + 1] = ToString(c.line)
           /\ HasPart(cmd, columnPart) => cmd[PartAt(cmd, columnPart) + 1] = ToString(c.column)
           /\ (HasPart(cmd, linePart) /\ HasPart(cmd, columnPart))
                 => PartAt(cmd, linePart) < PartAt(cmd, columnPart)
           /\ ~HasPart(cmd, IF mac THEN " --line " ELSE "&line=")
           /\ ~HasPart(cmd, IF mac THEN " --column " ELSE "&column=")

\* on macOS a file was opened at line 0, column 0: the URL has &column=0 and no &line=
C13_Witness ==
    /\ jump.command = "jump" /\ jump.started
    /\ jump.platform = "darwin"
    /\ jump.context.filePath = "/w/a.ts"
    /\ jump.context.line = 0 /\ jump.context.column = 0
    /\ HasPart(jump.launched, "&column=")
    /\ ~HasPart(jump.launched, "&line=")

\* C14: on every platform branch, building a command for a JumpContext with
\* neither a file path nor a project path fails with NoFileOrProject and jump
\* starts no process; with a file path or a project path, construction succeeds
\* and the process is started.
C14_NoTargetFailsBuild ==
    (jump.command = "jump" /\ jump.pc # "idle") =>
       LET c == jump.context
           none == c.filePath \in {Undefined, ""} /\ c.projectPath \in {Undefined, ""}
       IN  /\ none => /\ jump.failure = "build"
                      /\ jump.rejected = [id |-> "No file or project path provided!",
                                          args |-> << >>]
                      /\ ~jump.started
                      /\ jump.launched = << >>
           /\ ~none => /\ jump.failure # "build"
                       /\ jump.started
                       /\ jump.launched # << >>

\* a CLI-platform jump with line and column but no path was rejected before exec
C14_Witness ==
    /\ jump.command = "jump"
    /\ jump.platform = "linux"
    /\ jump.context = JumpContext(Undefined, Undefined, 2, 1)
    /\ jump.failure = "build"
    /\ ~jump.started

\* the position of the table entry default-path resolution is to select
FirstKey(name) ==
    LET lower == toLowerCase(NameChars(name))
        hits == {k \in 1..Len(appNameMap) : includes(lower, NameChars(appNameMap[k].key))}
    IN  IF hits = {} THEN 1 ELSE CHOOSE k \in hits : \A j \in hits : k <= j

\* the default path built from table entry k on the given platform
EntryPath(platform, k) ==
    CASE platform = "darwin" -> <<appNameMap[k].mac>>
      [] platform = "win32" ->
           <<"%LOCALAPPDATA%", "\\JetBrains\\Toolbox\\scripts\\", appNameMap[k].win[1]>>
      [] platform = "linux" ->
           <<"~", "/.local/share/JetBrains/Toolbox/scripts/", appNameMap[k].linux[1]>>
      [] OTHER -> <<appNameMap[k].mac>>

\* C15: default-path resolution, for every configured name and platform, selects the
\* first table entry, in table order, whose key is a substring of the lowercased
\* name, and the IntelliJ IDEA entry when none matches; a name containing 'webstorm'
\* in any letter case yields the WebStorm entry on each platform, an unrecognised
\* name the IntelliJ IDEA entry; the command launched for an editor without a
\* configured path starts with that path.
C15_DefaultPathFirstTableMatch ==
    (jump.command = "jump" /\ jump.pc # "idle") =>
       LET name == jump.config.name
           got == getDefaultPath(jump.platform, name)
       IN  /\ [k \in 1..Len(appNameMap) |-> appNameMap[k].mac] =
                 <<"IntelliJ IDEA", "WebStorm", "PyCharm", "GoLand", "PhpStorm", "Rider",
                   "CLion", "RubyMine", "DataGrip", "Android Studio">>
           /\ got = EntryPath(jump.platform, FirstKey(name))
           /\ name \in {"WebStorm", "webstorm", "MY WEBSTORM", "PyCharm WebStorm"} =>
                 got = CASE jump.platform = "win32" ->
                              <<"%LOCALAPPDATA%", "\\JetBrains\\Toolbox\\scripts\\", "webstorm">>
                         [] jump.platform = "linux" ->
                              <<"~", "/.local/share/JetBrains/Toolbox/scripts/", "webstorm">>
                         [] OTHER -> <<"WebStorm">>
           /\ name \in {"Sublime", "RustRover", ""} =>
                 got = CASE jump.platform = "win32" ->
                              <<"%LOCALAPPDATA%", "\\JetBrains\\Toolbox\\scripts\\", "idea">>
                         [] jump.platform = "linux" ->
                              <<"~", "/.local/share/JetBrains/Toolbox/scripts/", "idea">>
                         [] OTHER -> <<"IntelliJ IDEA">>
           /\ (jump.started /\ jump.config.path = "") =>
                 SubSeq(jump.launched, 2, 1 + Len(got)) = got

\* on Linux an editor named 'PyCharm WebStorm' without a path was launched from the
\* WebStorm entry, which precedes PyCharm in the table
C15_Witness ==
    /\ jump.command = "jump" /\ jump.started
    /\ jump.platform = "linux"
    /\ jump.config.name = "PyCharm WebStorm" /\ jump.config.path = ""
    /\ jump.launched[4] = "webstorm"

\* C16 as claimed: a process failure whose message contains 'ENOENT' is classified
\* as EditorNotFound; any other failure is classified as ExecutionFailed.
C16_OnlyENOENTIsNotFound ==
    (jump.command = "jump" /\ jump.failure = "exec") =>
       jump.rejected.id =
          IF "ENOENT" \in jump.exit.has
          THEN "Cannot launch {0}: \"{1}\" not found. Please check the editor path config."
          ELSE "Failed to launch {0}: {1}"

\* C16 as amended: a process failure whose message contains 'ENOENT', 'not found' or
\* the localized 'not found' phrase, or whose exit code is 127, is classified as
\* EditorNotFound, naming the editor and the path attempted; any other failure is
\* classified as ExecutionFailed, naming the editor and the error text; the message
\* is shown and the call is rejected with it.
C16_NotFoundSignals ==
    (jump.command = "jump" /\ jump.failure = "exec") =>
       LET notFound == \/ jump.exit.has \cap {"ENOENT", "not found", "zh:not found"} # {}
                       \/ jump.exit.code = 127
           path == IF jump.config.path # "" THEN <<jump.config.path>>
                   ELSE getDefaultPath(jump.platform, jump.config.name)
       IN  /\ jump.exit.failed
           /\ jump.shown = <<jump.rejected>>
           /\ jump.rejected =
                 IF notFound
                 THEN [id |-> "Cannot launch {0}: \"{1}\" not found. Please check the editor path config.",
                       args |-> <<jump.config.name>> \o path]
                 ELSE [id |-> "Failed to launch {0}: {1}",
                       args |-> <<jump.config.name, jump.exit.message>>]

\* a launch that ended with exit code 127 and no 'ENOENT' in its message was
\* reported as EditorNotFound
C16_Witness ==
    /\ jump.command = "jump" /\ jump.failure = "exec"
    /\ jump.exit.code = 127 /\ jump.exit.has = {}
    /\ jump.rejected.id =
          "Cannot launch {0}: \"{1}\" not found. Please check the editor path config."

-----------------------------------------------------------------------------
(* Properties of the entry point *)

\* C17: the open-file command invoked without a target and the jump from a row,
\* when no document is active, show NoActiveEditor; the open-project command, when
\* no workspace folder is open, shows NoWorkspace; in each case the command ends
\* without consulting the selector, the registry or a handler and without starting
\* a process; in every other case neither message is shown.
C17_PreconditionGuards ==
    jump.command \in {"openFile", "openProject", "jumpToEditor"} =>
       LET g == jump.given
           noDocument == \/ jump.command = "openFile" /\ ~g.target /\ ~g.document
                         \/ jump.command = "jumpToEditor" /\ ~g.document
           noFolder == jump.command = "openProject" /\ g.folders \in {NoNumber, 0}
           untouched == /\ jump.pc = "done"
                        /\ jump.list = << >> /\ ~jump.prompted /\ jump.selected = Hole
                        /\ ~jump.looked
                        /\ jump.config = Hole /\ jump.launched = << >>
                        /\ ~jump.started
           guardMessages ==
              { [id |-> "No active file! Please open a file first.", args |-> << >>],
                [id |-> "No workspace open! Please open a project folder first.",
                 args |-> << >>] }
       IN  /\ noDocument =>
                 /\ jump.shown = << [id |-> "No active file! Please open a file first.",
                                     args |-> << >>] >>
                 /\ untouched
           /\ noFolder =>
                 /\ jump.shown = << [id |-> "No workspace open! Please open a project folder first.",
                                     args |-> << >>] >>
                 /\ untouched
           /\ ~(noDocument \/ noFolder) =>
                 /\ \A k \in 1..Len(jump.shown) : jump.shown[k] \notin guardMessages
                 /\ jump.list # << >> \/ jump.looked

\* a jump from a sidebar row was refused because no document is active
C17_Witness ==
    /\ jump.command = "jumpToEditor"
    /\ ~jump.given.document
    /\ jump.pc = "done"
    /\ jump.shown = <<noActiveEditor>>
    /\ ~jump.looked /\ ~jump.started

-----------------------------------------------------------------------------
(* Properties of concurrent sidebar commands *)

\* C18: lost update is reachable.  Every write of a sidebar command stores the
\* list the command computed from what it read before its await, whatever has been
\* stored since, and the command confirms; so of two adds that read the same list
\* both complete and confirm while the stored list holds the entry of one only.
C18_LastWriteWins ==
    [][ \A f \in Flows :
          (flow[f].pc = "writing" /\ flow'[f].pc = "done") =>
             /\ editors' = Stored(flow[f].toWrite)
             /\ flow'[f].confirmed
             /\ flow[f].kind = "add" => flow[f].toWrite = flow[f].read \o <<flow[f].cfg>>
             /\ (flow[f].kind = "add" /\ getOrEmpty(editors) # flow[f].read)
                   => editors'.list = flow[f].read \o <<flow[f].cfg>>
             /\ \A g \in Flows \ {f} : flow'[g] = flow[g] ]_vars

\* the two commands of the run were adds, both completed and confirmed, nothing
\* else happened, and the stored list is one entry longer than a list the run can
\* start with
C18_Witness ==
    /\ used = 2
    /\ \A f \in Flows :
          /\ flow[f].pc = "done" /\ flow[f].kind = "add"
          /\ flow[f].confirmed /\ ~flow[f].abandoned
    /\ editors = Stored(<<WebStormA, EditorConfig("Sublime", "custom", "/opt/ide", "subl")>>)

\* C19: for every interleaving of a delete with other mutations of the stored list
\* (another sidebar command or an outside change between the rendering of the row
\* and the confirmation), the entry removed by the confirmed delete is the editor
\* the row showed and the prompt named, and no other entry is removed.  Stated for
\* rows rendered from a stored entry and still displayed, on the step on which the
\* confirmed delete reads the list and issues its write.
C19_DeleteRemovesNamedEditor ==
    [][ \A f \in Flows :
          (/\ flow[f].pc = "confirm" /\ flow'[f].pc = "writing"
           /\ flow[f].live
           /\ rendered.editors.present
           /\ flow[f].item.index < Len(rendered.editors.list)
           /\ rendered.editors.list[flow[f].item.index + 1] = flow[f].item.editor) =>
             LET before == flow'[f].read
                 after == flow'[f].toWrite
                 named == flow[f].item.editor
             IN  /\ after # before =>
                       \E k \in 1..Len(before) :
                          /\ before[k] = named
                          /\ after = [j \in 1..(Len(before) - 1) |->
                                        IF j < k THEN before[j] ELSE before[j + 1]]
                 /\ (\E k \in 1..Len(before) : before[k] = named) => after # before ]_vars

\* C20: every write of the list by a sidebar command is followed by a refresh,
\* issued when the write has completed and before the confirmation, and every
\* detected change of switch2idea.editors triggers a refresh; so once the last event
\* is processed the rows rendered are the effective editor list plus the trailing
\* add item.  Stated for stored lists without null entries.
C20_ViewFollowsStore ==
    LET es == getEditors(editors, ideaPath)
    IN  (/\ ~refreshPending
         /\ \A f \in Flows : flow[f].pc \in {"idle", "done"}
         /\ \A k \in 1..Len(es) : es[k] # Hole)
           => rows = [k \in 1..Len(es) |-> [editor |-> es[k], index |-> k - 1]]
                        \o << [editor |-> Hole, index |-> NoNumber] >>

-----------------------------------------------------------------------------
(* Properties of cancellation, of the effective list and of the jump context *)

\* C21: dismissing any prompt of the edit flow (field choice, name entry, path
\* choice or entry, URL scheme entry) has no side effect: the stored list is
\* unchanged, no confirmation is shown, and the EditorConfig held by the sidebar
\* row, which a later jump from the row uses, has the same name, path and urlScheme
\* as before.
C21_DismissedEditHasNoEffect ==
    [][ \A f \in Flows :
          (/\ flow[f].kind = "edit"
           /\ flow[f].pc \in {"editField", "editName", "editScheme",
                              "pathMethod", "pathBrowse", "pathInput"}
           /\ flow'[f].pc = "done"
           /\ flow'[f].answer = Undefined /\ flow'[f].abandoned) =>
             /\ editors' = editors
             /\ ~flow'[f].confirmed
             /\ rows' = rows ]_vars

\* C22: a successful add preserves the effective editor list as a prefix: every
\* entry getEditors returned before the add, an entry synthesized from the legacy
\* key or the built-in default included, is still returned after it, in the same
\* order, followed by the new entry.  Stated for adds whose write resolves on the
\* list they read.
C22_AddKeepsEffectiveList ==
    [][ \A f \in Flows :
          (Lands(f, "add") /\ flow[f].read = getOrEmpty(editors)) =>
             getEditors(editors', ideaPath') =
                getEditors(editors, ideaPath) \o <<flow[f].cfg>> ]_vars

\* C23: every JumpContext the entry-point commands pass on is valid and
\* cursor-complete: a file jump (open-file with or without a target, jump from a row)
\* carries a file path, a line of at least 1 and a defined column of at least 0, with
\* line 1 and column 0 when the target is not the active document; a project jump
\* carries a project path and neither line nor column; so command construction never
\* fails with NoFileOrProject and a file command always has its line and column parts.
C23_JumpContextComplete ==
    (jump.command \in {"openFile", "openProject", "jumpToEditor"}
        /\ jump.failure # "precondition") =>
       LET c == jump.context
           mac == jump.platform = "darwin"
       IN  /\ jump.command \in {"openFile", "jumpToEditor"} =>
                 /\ c.filePath \notin {Undefined, ""}
                 /\ c.projectPath = Undefined
                 /\ c.line # NoNumber /\ c.line >= 1
                 /\ c.column # NoNumber /\ c.column >= 0
                 /\ (jump.given.target /\ (~jump.given.document \/ c.filePath # "/w/a.ts"))
                       => (c.line = 1 /\ c.column = 0)
                 /\ jump.started =>
                       /\ HasPart(jump.launched, IF mac THEN "&line=" ELSE " --line ")
                       /\ HasPart(jump.launched, IF mac THEN "&column=" ELSE " --column ")
           /\ jump.command = "openProject" =>
                 /\ c.projectPath \notin {Undefined, ""}
                 /\ c.filePath = Undefined
                 /\ c.line = NoNumber /\ c.column = NoNumber
           /\ jump.failure # "build"

\* the open-file command was given a target that is not the active document and
\* launched it at line 1, column 0
C23_Witness ==
    /\ jump.command = "openFile"
    /\ jump.given.target /\ jump.given.document
    /\ jump.context = JumpContext("/w/b.ts", Undefined, 1, 0)
    /\ jump.platform = "linux"
    /\ jump.started
    /\ HasPart(jump.launched, " --line ") /\ HasPart(jump.launched, " --column ")

====
